---- MODULE Spec2Model ----
(***************************************************************************)
(* Tiny-transformer addition search (experiments/tiny_addition).           *)
(*                                                                         *)
(* The model follows run_search.py: the tokenizer/codec (encode_example,   *)
(* validate_dataset), the dataset generator (build_dataset), parameter     *)
(* accounting (TinyTransformer.__init__, count_params), the masked loss    *)
(* and the evaluator (train_attempt, evaluate), the attempt loop of main,  *)
(* and the selection steps of main and of generate_report.py.              *)
(*                                                                         *)
(* The network's weights are not modelled: what the forward pass returns   *)
(* is a nondeterministic input of the operators that consume it (the       *)
(* per-position cross-entropy for the loss, the per-position correctness   *)
(* of the argmax for evaluate).  Accuracies, which the code holds as       *)
(* floats k/n, are exact fractions <<k, n>> compared by cross              *)
(* multiplication.                                                         *)
(* TinyTransformer.forward itself is modelled over uninterpreted terms, to  *)
(* follow which input positions each logit is computed from.               *)
(***************************************************************************)
EXTENDS Integers, Sequences, FiniteSets, TLC

VARIABLES
    \* main / train_attempt / generate_report (run_search.py, generate_report.py)
    pc, train_pairs, val_pairs, seen, attempts, i, n_params, epoch, step,
    history, summaries, best, report,
    \* encode_example / validate_dataset called on one pair
    a, b, toks, ids, mask, decoded,
    \* the masked loss of one batch
    ce, loss, edits,
    \* one call of evaluate
    pred, tok_acc, seq_acc,
    \* TinyTransformer.forward on two input sequences
    inp, inp2, logits, logits2,
    \* one call of build_dataset(n, rng)
    n_arg, built

pipeVars == <<pc, train_pairs, val_pairs, seen, attempts, i, n_params, epoch,
              step, history, summaries, best, report>>
codecVars == <<a, b, toks, ids, mask, decoded>>
lossVars == <<ce, loss, edits>>
evalVars == <<pred, tok_acc, seq_acc>>
fwdVars == <<inp, inp2, logits, logits2>>
buildVars == <<n_arg, built>>
vars == <<pipeVars, codecVars, lossVars, evalVars, fwdVars, buildVars>>

(***************************************************************************)
(* Bounds.  The code works on 10-digit operands, 40,000 / 4,000 pairs,     *)
(* 12 epochs; the model keeps the code's structure with smaller sizes.     *)
(***************************************************************************)
\* digits per operand: the 10 of f"{a:010d}"; the result has DigitWidth + 1
DigitWidth == 2
\* rng.randrange(10**10) of build_dataset draws from 0..RngRange-1 here
RngRange == 2
\* build_dataset(40_000, rng_train) and build_dataset(4_000, rng_val)
NTrain == 2
NVal == 1
\* samples[:2000] of validate_dataset
ValidateLimit == 1
\* Attempt.epochs (12) and Attempt.batch_size (256) of main's attempts
Epochs == 4
BatchSize == 1
\* evaluate's default bs=512
EvalBatch == 1
\* widths tried for TinyTransformer(d_model, d_ff)
MaxDModel == 8
MaxDFf == 16
\* longest list of pairs handed to one call of evaluate
MaxEvalPairs == 2
\* forward passes compared on one batch
MaxEdits == 2
\* entries of an attempt_summary.json read by generate_report
MaxSummaries == 3
\* largest n passed to build_dataset in the build_dataset calls
MaxWanted == 5

\* Program constants
\* "epoch >= 3" of train_attempt's early stop
MIN_EPOCHS == 3
\* "val_seq >= 0.999" of train_attempt and generate_report: 999 / 1000
THRESHOLD_NUM == 999
THRESHOLD_DEN == 1000
\* "r['params'] < 491" of generate_report
PARAM_BUDGET == 491

\* ---------------------------------------------------------------- helpers
Min(x, y) == IF x <= y THEN x ELSE y

RECURSIVE Pow10(_)
Pow10(n) == IF n = 0 THEN 1 ELSE 10 * Pow10(n - 1)

\* s[::-1]
Reverse(s) == [k \in 1..Len(s) |-> s[Len(s) + 1 - k]]

RECURSIVE SumSeq(_)
SumSeq(s) == IF s = <<>> THEN 0 ELSE Head(s) + SumSeq(Tail(s))

\* ------------------------------------------------------- tokenizer / codec
DIGITS == <<"0", "1", "2", "3", "4", "5", "6", "7", "8", "9">>
TOKENS == <<"<bos>", "+", "=", "<eos>">> \o DIGITS
\* STOI = {t: i for i, t in enumerate(TOKENS)}: ids count from 0
STOI(t) == (CHOOSE k \in 1..Len(TOKENS) : TOKENS[k] = t) - 1
ITOS(id) == TOKENS[id + 1]
VOCAB == Len(TOKENS)
\* SEQ_LEN = 35 = 1 + 10 + 1 + 10 + 1 + 11 + 1 for 10-digit operands
SEQ_LEN == 3 * DigitWidth + 5

\* str(n) for n >= 0: the decimal digits, most significant first
RECURSIVE Str(_)
Str(n) == IF n < 10 THEN <<DIGITS[n + 1]>>
          ELSE Append(Str(n \div 10), DIGITS[(n % 10) + 1])

RECURSIVE Zeros(_)
Zeros(n) == IF n <= 0 THEN <<>> ELSE <<"0">> \o Zeros(n - 1)

\* f"{n:0Wd}": zero-padded to at least W characters, never truncated
Format(n, W) == Zeros(W - Len(Str(n))) \o Str(n)

\* int(s) for a string of decimal digits; -1 stands for ValueError
IsDigit(c) == \E v \in 0..9 : DIGITS[v + 1] = c
DigitVal(c) == CHOOSE v \in 0..9 : DIGITS[v + 1] = c
RECURSIVE IntOf(_)
IntOf(s) == IF s = <<>> THEN 0
            ELSE IntOf(SubSeq(s, 1, Len(s) - 1)) * 10 + DigitVal(s[Len(s)])
ParseInt(s) == IF s # <<>> /\ \A k \in 1..Len(s) : IsDigit(s[k])
               THEN IntOf(s) ELSE -1

\* Mutant: the result digits are written most significant first
EncodeToks_Unreversed(x, y) ==
    LET a_str == Reverse(Format(x, DigitWidth))
        b_str == Reverse(Format(y, DigitWidth))
        c == x + y
        c_str == Format(c, DigitWidth + 1)
    IN  <<"<bos>">> \o a_str \o <<"+">> \o b_str \o <<"=">> \o c_str \o <<"<eos>">>

\* lines 24-28 of encode_example: the token list
EncodeToks(x, y) ==
    LET a_str == Reverse(Format(x, DigitWidth))
        b_str == Reverse(Format(y, DigitWidth))
        c == x + y
        c_str == Reverse(Format(c, DigitWidth + 1))
    IN  <<"<bos>">> \o a_str \o <<"+">> \o b_str \o <<"=">> \o c_str \o <<"<eos>">>

\* Mutant: the mask starts after the operator instead of the separator
EqIdx_Plus(t) == (CHOOSE k \in 1..Len(t) :
                      t[k] = "+" /\ \A j \in 1..(k - 1) : t[j] # "+") - 1

\* toks.index("="), 0-based
EqIdx(t) == (CHOOSE k \in 1..Len(t) :
                 t[k] = "=" /\ \A j \in 1..(k - 1) : t[j] # "=") - 1

\* encode_example(a, b): "AssertionError" when len(toks) != SEQ_LEN, else the
\* ids and the mask (target is a clone of ids).  Sequences are 1-based here:
\* position p of the code is index p + 1.
encode_example(x, y) ==
    LET t == EncodeToks(x, y)
        eq_idx == EqIdx(t)
    IN  IF Len(t) # SEQ_LEN
        THEN [ok |-> FALSE, toks |-> t, ids |-> <<>>, mask |-> <<>>]
        ELSE [ok |-> TRUE,
              toks |-> t,
              ids |-> [k \in 1..Len(t) |-> STOI(t[k])],
              mask |-> [k \in 1..Len(t) |-> IF k - 1 >= eq_idx + 1 THEN 1 ELSE 0]]

\* lines 41-47 of validate_dataset: the three regions of the ids, decoded
\* (toks[1:11], toks[12:22], toks[23:34] for 10 digits)
Decode(idseq) ==
    LET t == [k \in 1..Len(idseq) |-> ITOS(idseq[k])]
        a_rev == SubSeq(t, 2, DigitWidth + 1)
        b_rev == SubSeq(t, DigitWidth + 3, 2 * DigitWidth + 2)
        c_rev == SubSeq(t, 2 * DigitWidth + 4, 3 * DigitWidth + 4)
    IN  <<ParseInt(Reverse(a_rev)), ParseInt(Reverse(b_rev)), ParseInt(Reverse(c_rev))>>

\* the body of validate_dataset's loop for one pair: TRUE when no assert fails
RoundTrips(x, y) ==
    LET e == encode_example(x, y)
    IN  e.ok /\ Decode(e.ids) = <<x, y, x + y>>

\* -------------------------------------------------- parameter accounting
\* Mutant: an output projection of its own instead of the tied embedding
Parameters_Untied(d_model, d_ff) ==
    << <<VOCAB, d_model>>,
       <<d_model>>, <<d_model>>,
       <<d_model, d_model>>, <<d_model>>,
       <<d_model, d_model>>, <<d_model>>,
       <<d_model, d_model>>, <<d_model>>,
       <<d_model, d_model>>, <<d_model>>,
       <<d_model>>, <<d_model>>,
       <<d_ff, d_model>>, <<d_ff>>,
       <<d_model, d_ff>>, <<d_model>>,
       <<d_model>>, <<d_model>>,
       <<VOCAB, d_model>> >>

\* TinyTransformer.__init__: the shape of every tensor of model.parameters(),
\* in registration order.  The output projection reuses tok_emb.weight
\* (forward, line 80) and adds no tensor.
Parameters(d_model, d_ff) ==
    << <<VOCAB, d_model>>,                      \* tok_emb.weight
       <<d_model>>, <<d_model>>,                \* ln1.weight, ln1.bias
       <<d_model, d_model>>, <<d_model>>,       \* q.weight, q.bias
       <<d_model, d_model>>, <<d_model>>,       \* k
       <<d_model, d_model>>, <<d_model>>,       \* v
       <<d_model, d_model>>, <<d_model>>,       \* proj
       <<d_model>>, <<d_model>>,                \* ln2
       <<d_ff, d_model>>, <<d_ff>>,             \* fc1.weight, fc1.bias
       <<d_model, d_ff>>, <<d_model>>,          \* fc2.weight, fc2.bias
       <<d_model>>, <<d_model>> >>              \* ln_f

\* p.numel()
RECURSIVE Numel(_)
Numel(shape) == IF shape = <<>> THEN 1 ELSE Head(shape) * Numel(Tail(shape))

\* count_params(model) = sum(p.numel() for p in model.parameters())
count_params(d_model, d_ff) ==
    LET ps == Parameters(d_model, d_ff)
    IN  SumSeq([k \in 1..Len(ps) |-> Numel(ps[k])])

\* generate_report.py line 44: P(d,f) = 4d^2 + 2df + 25d + f
ClosedForm(d, f) == 4 * d * d + 2 * d * f + 25 * d + f

\* ------------------------------------------------------ dataset generator
\* the values one rng.randrange call can return
RngValues == 0..(RngRange - 1)

\* Mutant: the seen test is dropped, every drawn pair is kept
Accepts_NoSeenTest(seenSet, p) == TRUE

\* "if (a, b) in seen: continue" of build_dataset: TRUE when the drawn pair is kept
Accepts(seenSet, p) == p \notin seenSet

\* set(pairs)
SetOf(pairs) == {pairs[k] : k \in 1..Len(pairs)}

\* samples[:2000]
ValidateSlice(samples) == SubSeq(samples, 1, Min(Len(samples), ValidateLimit))

\* validate_dataset(samples): TRUE when it returns, FALSE when an assert fails
validate_dataset(samples) ==
    \A k \in 1..Len(ValidateSlice(samples)) :
        RoundTrips(ValidateSlice(samples)[k][1], ValidateSlice(samples)[k][2])

\* Mutant: the disjointness test looks at the validated slices only
IsDisjoint_Sliced(tp, vp) ==
    SetOf(ValidateSlice(tp)) \cap SetOf(ValidateSlice(vp)) = {}

\* line 206: set(train_pairs).isdisjoint(set(val_pairs))
IsDisjoint(tp, vp) == SetOf(tp) \cap SetOf(vp) = {}

\* lines 206-208 of main: TRUE when the three dataset checks pass
DatasetChecksPass(tp, vp) ==
    /\ IsDisjoint(tp, vp)
    /\ validate_dataset(tp)
    /\ validate_dataset(vp)

\* ------------------------------------------------------------- evaluator
\* A fraction <<k, n>> stands for the float k / n.
FracLeq(f, g) == f[1] * g[2] <= g[1] * f[2]
FracLess(f, g) == f[1] * g[2] < g[1] * f[2]
THRESHOLD == <<THRESHOLD_NUM, THRESHOLD_DEN>>

\* len(range(0, len(pairs), bs))
NumBatches(n, bs) == (n + bs - 1) \div bs

\* (m > 0).sum(dim=1) of one example
MaskCount(m) == Cardinality({p \in 1..Len(m) : m[p] > 0})

\* cmp = (pred == y) & (m > 0), summed over one example; eq is the set of
\* positions where the argmax of the logits equals the target
CmpCount(eq, m) == Cardinality({p \in 1..Len(m) : p \in eq /\ m[p] > 0})

\* Mutant: an example counts as exact when any masked position is right
SeqOk_Any(eq, m) == CmpCount(eq, m) > 0

\* seq_ok = cmp.sum(dim=1) == (m > 0).sum(dim=1), for one example
SeqOk(eq, m) == CmpCount(eq, m) = MaskCount(m)

\* tok_total += (m > 0).sum().item(), for one example
TokTotal(m) == MaskCount(m)

\* batchify, line 114: encode_example(a, b) of each pair of the chunk.  The
\* encodings of the pairs the scaled rng can draw are tabulated once.
RECURSIVE Tabulate(_)
Tabulate(S) ==
    IF S = {} THEN <<>>
    ELSE LET p == CHOOSE q \in S : TRUE
         IN  (p :> encode_example(p[1], p[2])) @@ Tabulate(S \ {p})
EncodedDrawable == Tabulate(RngValues \X RngValues)
Encoded(p) ==
    IF p \in DOMAIN EncodedDrawable THEN EncodedDrawable[p]
    ELSE encode_example(p[1], p[2])

\* the body of evaluate's loop for batch j (1-based) of batchify(pairs, bs)
EvalBatchStep(pairs, pr, bs, j, acc) ==
    LET lo == (j - 1) * bs + 1
        hi == Min(j * bs, Len(pairs))
        ms == [e \in 1..(hi - lo + 1) |-> Encoded(pairs[lo + e - 1]).mask]
        n == hi - lo + 1
    IN  [tok_correct |-> acc.tok_correct
                          + SumSeq([e \in 1..n |-> CmpCount(pr[lo + e - 1], ms[e])]),
         tok_total |-> acc.tok_total + SumSeq([e \in 1..n |-> TokTotal(ms[e])]),
         seq_correct |-> acc.seq_correct
                          + SumSeq([e \in 1..n |->
                                       IF SeqOk(pr[lo + e - 1], ms[e]) THEN 1 ELSE 0]),
         seq_total |-> acc.seq_total + n]

RECURSIVE EvalLoop(_, _, _, _, _)
EvalLoop(pairs, pr, bs, j, acc) ==
    IF j > NumBatches(Len(pairs), bs) THEN acc
    ELSE EvalLoop(pairs, pr, bs, j + 1, EvalBatchStep(pairs, pr, bs, j, acc))

\* evaluate(model, pairs, bs): pr[e] is the set of positions of example e that the
\* model predicts correctly.  ok is FALSE for ZeroDivisionError (no pairs).
evaluate(pairs, pr, bs) ==
    LET acc == EvalLoop(pairs, pr, bs, 1,
                        [tok_correct |-> 0, tok_total |-> 0,
                         seq_correct |-> 0, seq_total |-> 0])
    IN  [ok |-> acc.tok_total > 0 /\ acc.seq_total > 0,
         tok |-> <<acc.tok_correct, acc.tok_total>>,
         seq |-> <<acc.seq_correct, acc.seq_total>>]

\* The positions encode_example marks in its mask, and the others
MaskedPositions == {p \in 1..SEQ_LEN : encode_example(0, 0).mask[p] > 0}
UnmaskedPositions == (1..SEQ_LEN) \ MaskedPositions

\* What a forward pass may get right on one example: any subset of the masked
\* positions and none of the others, or all of the others with none or all of
\* the masked positions
PredChoices ==
    (SUBSET MaskedPositions)
        \cup {M \cup UnmaskedPositions : M \in {{}, MaskedPositions}}
\* In the training loop: an example is predicted exactly or not at all
EpochPreds == {1..SEQ_LEN, UnmaskedPositions}

\* ------------------------------------------------------------ masked loss
\* Float values of the loss computation: a finite fraction num/den, +inf or nan
Fin(n, d) == [kind |-> "fin", num |-> n, den |-> d]
Inf == [kind |-> "inf", num |-> 0, den |-> 1]
NaN == [kind |-> "nan", num |-> 0, den |-> 1]

\* x * m for a mask value m in {0, 1}: IEEE 754 gives inf * 0 = nan, nan * 0 = nan
FMul(x, m) ==
    CASE x.kind = "nan" -> NaN
      [] x.kind = "inf" -> IF m = 0 THEN NaN ELSE Inf
      [] OTHER -> Fin(x.num * m, x.den)

FAdd(x, y) ==
    CASE x.kind = "nan" \/ y.kind = "nan" -> NaN
      [] x.kind = "inf" \/ y.kind = "inf" -> Inf
      [] OTHER -> Fin(x.num * y.den + y.num * x.den, x.den * y.den)

RECURSIVE FSum(_)
FSum(s) == IF s = <<>> THEN Fin(0, 1) ELSE FAdd(Head(s), FSum(Tail(s)))

\* x / n for a count n >= 0: a / 0 is inf for a > 0 and nan for a = 0
FDiv(x, n) ==
    CASE x.kind = "nan" -> NaN
      [] x.kind = "inf" -> Inf
      [] n = 0 -> IF x.num = 0 THEN NaN ELSE Inf
      [] OTHER -> Fin(x.num, x.den * n)

\* two float values are the same loss (nan is compared as a value here)
SameFloat(x, y) ==
    /\ x.kind = y.kind
    /\ x.kind = "fin" => x.num * y.den = y.num * x.den

\* line 155: (loss * m.view(-1)).sum() / m.sum(), where lossvec is the
\* per-position F.cross_entropy(..., reduction="none") of line 154
MaskedLoss(lossvec, m) ==
    FDiv(FSum([p \in 1..Len(lossvec) |-> FMul(lossvec[p], m[p])]), SumSeq(m))

\* ------------------------------------------------------ search controller
\* main, lines 211-217 (lr is left out: it only reaches the weights)
MainAttempts ==
    << [name |-> "a_d4_ff8", d_model |-> 4, d_ff |-> 8, epochs |-> Epochs, batch_size |-> BatchSize],
       [name |-> "b_d5_ff10", d_model |-> 5, d_ff |-> 10, epochs |-> Epochs, batch_size |-> BatchSize],
       [name |-> "c_d6_ff12", d_model |-> 6, d_ff |-> 12, epochs |-> Epochs, batch_size |-> BatchSize],
       [name |-> "d_d6_ff14", d_model |-> 6, d_ff |-> 14, epochs |-> Epochs, batch_size |-> BatchSize],
       [name |-> "e_d6_ff16", d_model |-> 6, d_ff |-> 16, epochs |-> Epochs, batch_size |-> BatchSize] >>

\* Mutant: the epoch order is drawn with replacement (random.choices)
Shuffles_WithReplacement(s) == [1..Len(s) -> SetOf(s)]

\* random.shuffle(train_pairs): any reordering of the list
Shuffles(s) == {[k \in 1..Len(s) |-> s[f[k]]] : f \in Permutations(1..Len(s))}

\* "val_seq >= 0.999" (train_attempt line 179, generate_report line 16)
MeetsThreshold(acc) == FracLeq(THRESHOLD, acc)

\* Mutant: the early stop without its minimum epoch
EarlyStop_NoMinEpoch(val_seq, ep) == MeetsThreshold(val_seq)

\* line 179: if val_seq >= 0.999 and epoch >= 3: break
EarlyStop(val_seq, ep) == MeetsThreshold(val_seq) /\ ep >= MIN_EPOCHS

\* max(h["val_seq_acc"] for h in history), history not empty
RECURSIVE MaxValSeq(_)
MaxValSeq(h) ==
    IF Len(h) = 1 THEN h[1].val_seq_acc
    ELSE LET rest == MaxValSeq(Tail(h))
         IN  IF FracLess(h[1].val_seq_acc, rest) THEN rest ELSE h[1].val_seq_acc

\* An attempt's result, with the fields the selection steps read
\* (train_attempt lines 183-190)
Out(att, params, h) ==
    [attempt |-> att.name, params |-> params, best_val_seq_acc |-> MaxValSeq(h)]

NoResult == [attempt |-> "", params |-> 0, best_val_seq_acc |-> <<0, 1>>]

\* main line 225: max(summaries, key=lambda x: x["best_val_seq_acc"]), which
\* returns the first of the maximal elements and raises ValueError on []
MainBest(rs) ==
    IF rs = <<>> THEN [status |-> "ValueError", pick |-> NoResult]
    ELSE LET k == CHOOSE k \in 1..Len(rs) :
                      /\ \A j \in 1..Len(rs) :
                             FracLeq(rs[j].best_val_seq_acc, rs[k].best_val_seq_acc)
                      /\ \A j \in 1..(k - 1) :
                             FracLess(rs[j].best_val_seq_acc, rs[k].best_val_seq_acc)
         IN  [status |-> "ok", pick |-> rs[k]]

\* generate_report line 15: [r for r in summary if r['params'] < 491]
UnderBudget(r) == r.params < PARAM_BUDGET
BestUnder(rs) == SelectSeq(rs, UnderBudget)

\* generate_report line 16: the filter of min's argument
ReachedTarget(r) == MeetsThreshold(r.best_val_seq_acc)
Eligible(rs) == SelectSeq(BestUnder(rs), ReachedTarget)

\* Mutant: ties on the parameter count go to the last of the minimal elements
ReportBest_LastMin(rs) ==
    LET el == Eligible(rs)
    IN  IF el = <<>> THEN [status |-> "ValueError", pick |-> NoResult]
        ELSE LET k == CHOOSE k \in 1..Len(el) :
                          /\ \A j \in 1..Len(el) : el[k].params <= el[j].params
                          /\ \A j \in (k + 1)..Len(el) : el[k].params < el[j].params
             IN  [status |-> "ok", pick |-> el[k]]

\* generate_report line 16: min(..., key=lambda x: x['params']), which returns
\* the first of the minimal elements and raises ValueError on []
ReportBest(rs) ==
    LET el == Eligible(rs)
    IN  IF el = <<>> THEN [status |-> "ValueError", pick |-> NoResult]
        ELSE LET k == CHOOSE k \in 1..Len(el) :
                          /\ \A j \in 1..Len(el) : el[k].params <= el[j].params
                          /\ \A j \in 1..(k - 1) : el[k].params < el[j].params
             IN  [status |-> "ok", pick |-> el[k]]

NoBest == [status |-> "none", pick |-> NoResult]

\* ---------------------------------------------------------------- actions
IdlePipe ==
    /\ pc = "idle" /\ train_pairs = <<>> /\ val_pairs = <<>> /\ seen = {}
    /\ attempts = MainAttempts /\ i = 0 /\ n_params = 0 /\ epoch = 0 /\ step = 0
    /\ history = <<>> /\ summaries = <<>> /\ best = NoBest /\ report = NoBest
IdleCodec ==
    a = 0 /\ b = 0 /\ toks = <<>> /\ ids = <<>> /\ mask = <<>> /\ decoded = <<>>
IdleLoss == ce = <<>> /\ loss = NaN /\ edits = 0
IdleEval == pred = <<>> /\ tok_acc = <<0, 1>> /\ seq_acc = <<0, 1>>
IdleFwd == inp = <<>> /\ inp2 = <<>> /\ logits = <<>> /\ logits2 = <<>>
IdleBuild == n_arg = 0 /\ built = <<>>
IdleCalls == IdleFwd /\ IdleBuild

\* main, lines 196-201
Init ==
    /\ pc = "build_train" /\ train_pairs = <<>> /\ val_pairs = <<>> /\ seen = {}
    /\ attempts = MainAttempts /\ i = 0 /\ n_params = 0 /\ epoch = 0 /\ step = 0
    /\ history = <<>> /\ summaries = <<>> /\ best = NoBest /\ report = NoBest
    /\ IdleCodec /\ IdleLoss /\ IdleEval /\ IdleCalls

\* build_dataset(40_000, rng_train): one turn of the while loop
BuildTrainStep ==
    /\ pc = "build_train"
    /\ Len(train_pairs) < NTrain
    /\ \E x \in RngValues, y \in RngValues :
         IF Accepts(seen, <<x, y>>)
         THEN seen' = seen \cup {<<x, y>>} /\ train_pairs' = Append(train_pairs, <<x, y>>)
         ELSE UNCHANGED <<seen, train_pairs>>
    /\ UNCHANGED <<pc, val_pairs, attempts, i, n_params, epoch, step, history,
                   summaries, best, report, codecVars, lossVars, evalVars,
                   fwdVars, buildVars>>

\* build_dataset returns train_pairs; the next call starts with seen = set()
BuildTrainReturn ==
    /\ pc = "build_train"
    /\ ~(Len(train_pairs) < NTrain)
    /\ pc' = "build_val"
    /\ seen' = {}
    /\ UNCHANGED <<train_pairs, val_pairs, attempts, i, n_params, epoch, step,
                   history, summaries, best, report, codecVars, lossVars, evalVars,
                   fwdVars, buildVars>>

\* build_dataset(4_000, rng_val): one turn of the while loop
BuildValStep ==
    /\ pc = "build_val"
    /\ Len(val_pairs) < NVal
    /\ \E x \in RngValues, y \in RngValues :
         IF Accepts(seen, <<x, y>>)
         THEN seen' = seen \cup {<<x, y>>} /\ val_pairs' = Append(val_pairs, <<x, y>>)
         ELSE UNCHANGED <<seen, val_pairs>>
    /\ UNCHANGED <<pc, train_pairs, attempts, i, n_params, epoch, step, history,
                   summaries, best, report, codecVars, lossVars, evalVars,
                   fwdVars, buildVars>>

BuildValReturn ==
    /\ pc = "build_val"
    /\ ~(Len(val_pairs) < NVal)
    /\ pc' = "checks"
    /\ seen' = {}
    /\ UNCHANGED <<train_pairs, val_pairs, attempts, i, n_params, epoch, step,
                   history, summaries, best, report, codecVars, lossVars, evalVars,
                   fwdVars, buildVars>>

\* main, lines 205-220: a failed assert ends the run
DatasetChecks ==
    /\ pc = "checks"
    /\ IF DatasetChecksPass(train_pairs, val_pairs)
       THEN pc' = "attempt_start" /\ i' = 1
       ELSE pc' = "aborted" /\ i' = i
    /\ UNCHANGED <<train_pairs, val_pairs, seen, attempts, n_params, epoch, step,
                   history, summaries, best, report, codecVars, lossVars, evalVars,
                   fwdVars, buildVars>>

\* main line 220-221 and train_attempt lines 136-146: the next attempt begins
StartAttempt ==
    /\ pc = "attempt_start"
    /\ i <= Len(attempts)
    /\ n_params' = count_params(attempts[i].d_model, attempts[i].d_ff)
    /\ history' = <<>>
    /\ step' = 0
    /\ epoch' = 0
    /\ pc' = IF attempts[i].epochs >= 1 THEN "epoch" ELSE "attempt_finish"
    /\ UNCHANGED <<train_pairs, val_pairs, seen, attempts, i, summaries, best,
                   report, codecVars, lossVars, evalVars,
                   fwdVars, buildVars>>

\* train_attempt lines 147-180: one epoch.  The metrics that are only logged
\* (train_loss, train_*_acc, val_tok_acc) are left out of history.
TrainEpoch ==
    /\ pc = "epoch"
    /\ \E pr \in [1..Len(val_pairs) -> EpochPreds] :
       \E ev \in {evaluate(val_pairs, pr, EvalBatch)} :
       \E shuffled \in Shuffles(train_pairs) :
         LET ep == epoch + 1
         IN  /\ train_pairs' = shuffled
             /\ epoch' = ep
             /\ step' = step + NumBatches(Len(shuffled), attempts[i].batch_size)
             /\ history' = Append(history, [epoch |-> ep, val_seq_acc |-> ev.seq])
             /\ pc' = IF ~ev.ok THEN "aborted"
                      ELSE IF EarlyStop(ev.seq, ep) \/ ep = attempts[i].epochs
                           THEN "attempt_finish" ELSE "epoch"
    /\ UNCHANGED <<val_pairs, seen, attempts, i, n_params, summaries, best,
                   report, codecVars, lossVars, evalVars,
                   fwdVars, buildVars>>

\* train_attempt lines 182-192 and main line 222
FinishAttempt ==
    /\ pc = "attempt_finish"
    /\ IF history = <<>>
       THEN pc' = "aborted" /\ UNCHANGED <<summaries, i>>
       ELSE /\ summaries' = Append(summaries, Out(attempts[i], n_params, history))
            /\ i' = i + 1
            /\ pc' = "attempt_start"
    \* the locals of train_attempt are gone when it returns
    /\ n_params' = 0 /\ epoch' = 0 /\ step' = 0 /\ history' = <<>>
    /\ UNCHANGED <<train_pairs, val_pairs, seen, attempts, best, report,
                   codecVars, lossVars, evalVars,
                   fwdVars, buildVars>>

\* main lines 224-226, once the for loop is over
MainSelect ==
    /\ pc = "attempt_start"
    /\ i > Len(attempts)
    /\ best' = MainBest(summaries)
    /\ pc' = "done"
    /\ UNCHANGED <<train_pairs, val_pairs, seen, attempts, i, n_params, epoch,
                   step, history, summaries, report, codecVars, lossVars, evalVars,
                   fwdVars, buildVars>>

\* generate_report.py lines 5-16, run on the attempt_summary.json main wrote
GenerateReport ==
    /\ pc = "done"
    /\ report' = ReportBest(summaries)
    /\ pc' = "reported"
    /\ UNCHANGED <<train_pairs, val_pairs, seen, attempts, i, n_params, epoch,
                   step, history, summaries, best, codecVars, lossVars, evalVars,
                   fwdVars, buildVars>>

DataNext ==
    \/ BuildTrainStep \/ BuildTrainReturn \/ BuildValStep \/ BuildValReturn
    \/ DatasetChecks

SearchNext ==
    \/ StartAttempt \/ TrainEpoch \/ FinishAttempt \/ MainSelect \/ GenerateReport

Next == DataNext \/ SearchNext

\* The whole run: run_search.py's main, then generate_report.py
Spec == Init /\ [][Next]_vars

\* Dataset preparation, up to the start of the first attempt
DataSpec == Init /\ [][DataNext]_vars

\* ------------------------------------------------- entry points and inputs
\* The pairs the scaled rng can draw, in a fixed order
PairList == [k \in 1..(RngRange * RngRange) |->
                <<(k - 1) \div RngRange, (k - 1) % RngRange>>]
\* One outcome of dataset preparation that passes the checks of main
PreparedTrain == SubSeq(PairList, 1, NTrain)
PreparedVal == SubSeq(PairList, NTrain + 1, NTrain + NVal)

\* main at line 219, the dataset checks passed
SearchInit ==
    /\ pc = "attempt_start" /\ i = 1
    /\ train_pairs = PreparedTrain /\ val_pairs = PreparedVal
    /\ Len(train_pairs) = NTrain /\ Len(val_pairs) = NVal
    /\ DatasetChecksPass(train_pairs, val_pairs)
    /\ seen = {} /\ attempts = MainAttempts /\ n_params = 0 /\ epoch = 0 /\ step = 0
    /\ history = <<>> /\ summaries = <<>> /\ best = NoBest /\ report = NoBest
    /\ IdleCodec /\ IdleLoss /\ IdleEval /\ IdleCalls

\* The attempt loop, the selection of main and the report
SearchSpec == SearchInit /\ [][SearchNext]_vars

\* best_val_seq_acc values of a finished attempt on 4,000 validation pairs,
\* as thousandths: 0.0, 0.8, 0.998, 0.999, 1.0
AccLevels == {<<0, 1000>>, <<800, 1000>>, <<998, 1000>>, <<999, 1000>>, <<1000, 1000>>}

\* main at line 224: every attempt of the list has run
SelectInit ==
    /\ pc = "attempt_start" /\ i = Len(MainAttempts) + 1
    /\ train_pairs = PreparedTrain /\ val_pairs = PreparedVal
    /\ seen = {} /\ attempts = MainAttempts /\ n_params = 0 /\ epoch = 0 /\ step = 0
    /\ history = <<>> /\ best = NoBest /\ report = NoBest
    /\ \E accs \in [1..Len(MainAttempts) -> AccLevels] :
         summaries = [k \in 1..Len(MainAttempts) |->
                         [attempt |-> MainAttempts[k].name,
                          params |-> count_params(MainAttempts[k].d_model,
                                                  MainAttempts[k].d_ff),
                          best_val_seq_acc |-> accs[k]]]
    /\ IdleCodec /\ IdleLoss /\ IdleEval /\ IdleCalls

SelectNext == MainSelect \/ GenerateReport

\* The two selection steps on any list of finished attempts
SelectSpec == SelectInit /\ [][SelectNext]_vars

\* generate_report.py line 5: the attempt_summary.json it reads is any ordered
\* list of results of main's configurations (a configuration may have been run
\* more than once, in any order)
FileAccs == {<<998, 1000>>, <<999, 1000>>, <<1000, 1000>>}
FileEntries ==
    {[attempt |-> MainAttempts[k].name,
      params |-> count_params(MainAttempts[k].d_model, MainAttempts[k].d_ff),
      best_val_seq_acc |-> acc] : k \in 1..Len(MainAttempts), acc \in FileAccs}
FileInit ==
    /\ pc = "done" /\ i = 0
    /\ train_pairs = <<>> /\ val_pairs = <<>>
    /\ seen = {} /\ attempts = MainAttempts /\ n_params = 0 /\ epoch = 0 /\ step = 0
    /\ history = <<>> /\ best = NoBest /\ report = NoBest
    /\ \E n \in 1..MaxSummaries : summaries \in [1..n -> FileEntries]
    /\ IdleCodec /\ IdleLoss /\ IdleEval /\ IdleCalls

\* The selection steps: main's on the list main built, generate_report's on the
\* list main wrote or on any other attempt_summary.json
TieInit == SelectInit \/ FileInit
TieNext == MainSelect \/ GenerateReport
TieSpec == TieInit /\ [][TieNext]_vars

\* train_attempt called with an attempt of any width
ParamInit ==
    /\ pc = "attempt_start" /\ i = 1
    /\ train_pairs = PreparedTrain /\ val_pairs = PreparedVal
    /\ seen = {} /\ n_params = 0 /\ epoch = 0 /\ step = 0
    /\ \E d \in 1..MaxDModel, f \in 1..MaxDFf :
         attempts = << [name |-> "attempt", d_model |-> d, d_ff |-> f,
                        epochs |-> Epochs, batch_size |-> BatchSize] >>
    /\ history = <<>> /\ summaries = <<>> /\ best = NoBest /\ report = NoBest
    /\ IdleCodec /\ IdleLoss /\ IdleEval /\ IdleCalls

ParamNext == StartAttempt

\* Model construction and parameter counting
ParamSpec == ParamInit /\ [][ParamNext]_vars

\* ----------------------------------------------------------- codec calls
\* Every operand of the width, and the ones paired with each of them: the ends
\* of the range, small values, and a carry out of every digit.  Together the
\* pairs reach every value of a, of b and of a + b.
Operands == 0..(Pow10(DigitWidth) - 1)
OperandSamples == {0, 1, 2, 9, Pow10(DigitWidth) \div 2, Pow10(DigitWidth) - 1}
OperandPairs == (Operands \X OperandSamples) \cup (OperandSamples \X Operands)

CodecInit ==
    /\ IdlePipe /\ IdleLoss /\ IdleEval /\ IdleCalls
    /\ \E p \in OperandPairs : a = p[1] /\ b = p[2]
    /\ toks = <<>> /\ ids = <<>> /\ mask = <<>> /\ decoded = <<>>

\* ids, _, mask = encode_example(a, b)
Encode ==
    /\ ids = <<>>
    /\ encode_example(a, b).ok
    /\ toks' = encode_example(a, b).toks
    /\ ids' = encode_example(a, b).ids
    /\ mask' = encode_example(a, b).mask
    /\ UNCHANGED <<a, b, decoded, pipeVars, lossVars, evalVars,
                   fwdVars, buildVars>>

\* validate_dataset lines 41-44 on these ids
Validate ==
    /\ ids # <<>>
    /\ decoded = <<>>
    /\ decoded' = Decode(ids)
    /\ UNCHANGED <<a, b, toks, ids, mask, pipeVars, lossVars, evalVars,
                   fwdVars, buildVars>>

CodecNext == Encode \/ Validate

CodecSpec == CodecInit /\ [][CodecNext]_vars

\* ------------------------------------------------------------ loss calls
\* Per-position cross-entropy values a forward pass can produce
CEValues == {Fin(0, 1), Fin(1, 1), Fin(3, 2), Inf, NaN}

\* One batch holding the example of the pair (1, 2); a first forward pass
LossInit ==
    /\ IdlePipe /\ IdleEval /\ IdleCalls
    /\ a = 1 /\ b = 2 /\ decoded = <<>>
    /\ toks = encode_example(a, b).toks
    /\ ids = encode_example(a, b).ids
    /\ mask = encode_example(a, b).mask
    /\ ce \in {[p \in 1..SEQ_LEN |-> v] : v \in {Fin(0, 1), Fin(1, 1)}}
    /\ loss = MaskedLoss(ce, mask)
    /\ edits = 0

\* train_attempt lines 153-155 again on the same batch, with logits that give
\* another cross-entropy at position p
Forward ==
    /\ edits < MaxEdits
    /\ \E p \in 1..SEQ_LEN, v \in CEValues :
         /\ ce' = [ce EXCEPT ![p] = v]
         /\ loss' = MaskedLoss(ce', mask)
    /\ edits' = edits + 1
    /\ UNCHANGED <<pipeVars, codecVars, evalVars,
                   fwdVars, buildVars>>

LossNext == Forward

LossSpec == LossInit /\ [][LossNext]_vars

\* -------------------------------------------------------- evaluate calls
EvalInit ==
    /\ pc = "evaluate"
    /\ train_pairs = <<>> /\ seen = {}
    /\ attempts = MainAttempts /\ i = 0 /\ n_params = 0 /\ epoch = 0 /\ step = 0
    /\ history = <<>> /\ summaries = <<>> /\ best = NoBest /\ report = NoBest
    /\ \E n \in 1..MaxEvalPairs :
         /\ val_pairs = SubSeq(PairList, 1, n)
         /\ pred \in [1..n -> PredChoices]
    /\ tok_acc = <<0, 1>> /\ seq_acc = <<0, 1>>
    /\ IdleCodec /\ IdleLoss /\ IdleCalls

\* val_tok, val_seq = evaluate(model, val_pairs)
EvaluateCall ==
    /\ pc = "evaluate"
    /\ \E r \in {evaluate(val_pairs, pred, EvalBatch)} :
         /\ r.ok
         /\ tok_acc' = r.tok
         /\ seq_acc' = r.seq
    /\ pc' = "evaluated"
    /\ UNCHANGED <<train_pairs, val_pairs, seen, attempts, i, n_params, epoch,
                   step, history, summaries, best, report, pred, codecVars, lossVars,
                   fwdVars, buildVars>>

EvalNext == EvaluateCall

EvalSpec == EvalInit /\ [][EvalNext]_vars

\* ---------------------------------------------------------- forward pass
\* TinyTransformer.forward, lines 64-81.  The weights are left uninterpreted: the
\* value at a position is the term <<op, argument, ...>> of the operations that
\* produce it, so two positions hold equal terms only if they hold equal
\* tensors whatever the weights.  The embedding term also records the position
\* its token was read from.

\* line 65: h = self.tok_emb(x)
TokEmb(s, p) == <<"tok_emb", p, s[p]>>

\* lines 67-68: h = self.ln1(h); q, k, v = self.q(h), self.k(h), self.v(h)
QTerm(s, p) == <<"q", <<"ln1", TokEmb(s, p)>>>>
KTerm(s, p) == <<"k", <<"ln1", TokEmb(s, p)>>>>
VTerm(s, p) == <<"v", <<"ln1", TokEmb(s, p)>>>>

\* Mutant: the lower triangle is masked, a position attends to the later ones
CausalMask_Lower(p, j) == p - j >= 1

\* line 70: torch.triu(torch.ones(T, T), diagonal=1).bool() at row p, column j
CausalMask(p, j) == j - p >= 1

\* lines 69 and 71: the score of row p, column j after masked_fill
Score(s, p, j) ==
    IF CausalMask(p, j) THEN <<"-inf">> ELSE <<"qk", QTerm(s, p), KTerm(s, j)>>

\* lines 72-73: softmax over row p gives weight 0 where the score is -inf, so
\* att @ v sums the values of the other columns, weighted by the row
Attend(s, p) ==
    <<"attend",
      <<"softmax">> \o [j \in 1..Len(s) |-> Score(s, p, j)],
      <<"values">> \o [j \in 1..Len(s) |->
                          IF CausalMask(p, j) THEN <<"0">> ELSE VTerm(s, j)]>>

\* lines 73-74: h = r + self.proj(att @ v)
Residual1(s, p) == <<"add", TokEmb(s, p), <<"proj", Attend(s, p)>>>>

\* lines 75-78: h = r2 + self.fc2(F.gelu(self.fc1(self.ln2(h))))
Residual2(s, p) ==
    <<"add", Residual1(s, p),
      <<"fc2", <<"gelu", <<"fc1", <<"ln2", Residual1(s, p)>>>>>>>>>>

\* lines 79-80: logits = self.ln_f(h) @ self.tok_emb.weight.T
forward(s) == [p \in 1..Len(s) |-> <<"tied_head", <<"ln_f", Residual2(s, p)>>>>]

\* The input positions whose token a term is computed from
RECURSIVE InputPositions(_)
InputPositions(t) ==
    IF t[1] = "tok_emb" THEN {t[2]}
    ELSE UNION {InputPositions(t[k]) : k \in 2..Len(t)}

\* encode_example line 30 and batchify: y is target = ids.clone(), position for
\* position the sequence that is also the input x
Target(s) == s

\* A batch of two examples (batchify stacks the encodings of a chunk)
FwdOperands == {0, 1, 2, Pow10(DigitWidth) - 1}
FwdPairs == FwdOperands \X FwdOperands

FwdInit ==
    /\ IdlePipe /\ IdleCodec /\ IdleLoss /\ IdleEval /\ IdleBuild
    /\ \E p1 \in FwdPairs, p2 \in FwdPairs :
         /\ inp = encode_example(p1[1], p1[2]).ids
         /\ inp2 = encode_example(p2[1], p2[2]).ids
    /\ logits = <<>> /\ logits2 = <<>>

\* logits = model(x) of train_attempt line 153 and evaluate line 123
ForwardCall ==
    /\ logits = <<>>
    /\ logits' = forward(inp)
    /\ logits2' = forward(inp2)
    /\ UNCHANGED <<inp, inp2, pipeVars, codecVars, lossVars, evalVars, buildVars>>

FwdNext == ForwardCall

FwdSpec == FwdInit /\ [][FwdNext]_vars

\* ------------------------------------------------- build_dataset calls
\* The pairs rng.randrange can draw
Domain == RngValues \X RngValues
DomainSize == Cardinality(Domain)

\* Mutant: the loop runs while len(pairs) <= n
Collecting_OffByOne(ps, n) == Len(ps) <= n

\* line 101: while len(pairs) < n
Collecting(ps, n) == Len(ps) < n

\* build_dataset(n, rng) is entered, lines 98-100
BuildInit ==
    /\ pc = "build" /\ train_pairs = <<>> /\ val_pairs = <<>> /\ seen = {}
    /\ attempts = MainAttempts /\ i = 0 /\ n_params = 0 /\ epoch = 0 /\ step = 0
    /\ history = <<>> /\ summaries = <<>> /\ best = NoBest /\ report = NoBest
    /\ n_arg \in 0..MaxWanted /\ built = <<>>
    /\ IdleCodec /\ IdleLoss /\ IdleEval /\ IdleFwd

\* lines 101-107: one turn of the loop in which rng draws the pair p
BuildDraw(p) ==
    /\ pc = "build"
    /\ Collecting(built, n_arg)
    /\ IF Accepts(seen, p)
       THEN seen' = seen \cup {p} /\ built' = Append(built, p)
       ELSE UNCHANGED <<seen, built>>
    /\ UNCHANGED <<pc, train_pairs, val_pairs, attempts, i, n_params, epoch, step,
                   history, summaries, best, report, n_arg,
                   codecVars, lossVars, evalVars, fwdVars>>

BuildStep == \E p \in Domain : BuildDraw(p)

\* line 108: return pairs
BuildReturn ==
    /\ pc = "build"
    /\ ~Collecting(built, n_arg)
    /\ pc' = "built"
    /\ UNCHANGED <<train_pairs, val_pairs, seen, attempts, i, n_params, epoch, step,
                   history, summaries, best, report, buildVars,
                   codecVars, lossVars, evalVars, fwdVars>>

BuildNext == BuildStep \/ BuildReturn

\* rng eventually draws every pair of the domain, and the loop keeps running
BuildFairness ==
    /\ \A p \in Domain : WF_vars(BuildDraw(p))
    /\ WF_vars(BuildReturn)

BuildSpec == BuildInit /\ [][BuildNext]_vars /\ BuildFairness

\* ================================================================ properties
NoDuplicates(s) == \A j, k \in 1..Len(s) : j # k => s[j] # s[k]

\* C1 (CodecSpec): decoding the three operand and result regions of the token
\* sequence of a pair (a, b), each reversed and read as a decimal integer, gives
\* back a, b and a + b; for a = 1, b = 2 the result region decodes to 3.
C1_RoundTrip ==
    decoded # <<>> =>
        /\ decoded = <<a, b, a + b>>
        /\ (a = 1 /\ b = 2) => decoded[3] = 3

C1_Witness == a = 1 /\ b = 2 /\ ids # <<>> /\ decoded = <<1, 2, 3>>

\* C2 (SelectSpec): when some attempt under the parameter budget reached the
\* accuracy threshold, the selected attempt is one of those and none of those
\* has fewer parameters.
C2_SelectsSmallestEligible ==
    (pc \in {"done", "reported"} /\ Eligible(summaries) # <<>>) =>
        /\ best.status = "ok"
        /\ \E k \in 1..Len(Eligible(summaries)) : best.pick = Eligible(summaries)[k]
        /\ \A k \in 1..Len(Eligible(summaries)) :
               best.pick.params <= Eligible(summaries)[k].params

\* C3 (Spec): an attempt whose parameter count is 491 or more performs no
\* training step.
C3_OverBudgetNotTrained == step > 0 => n_params < PARAM_BUDGET

\* C4 (SelectSpec): when no attempt under the budget reached the threshold, the
\* selection does not raise and reports the best attempt found with a flag
\* saying that the target was not met, instead of a plain best.
C4_FlagsTargetNotMet ==
    (pc = "reported" /\ Eligible(summaries) = <<>>) =>
        /\ report.status = "target_not_met"
        /\ best.status = "target_not_met"

\* C5 (DataSpec): build_dataset returns exactly n pairs, no pair twice, and the
\* pairs of the validation split are disjoint from those of the training split
\* when the search starts.
C5_DistinctDisjoint ==
    /\ NoDuplicates(train_pairs) /\ NoDuplicates(val_pairs)
    /\ pc # "build_train" => Len(train_pairs) = NTrain
    /\ pc \notin {"build_train", "build_val"} => Len(val_pairs) = NVal
    /\ pc = "attempt_start" =>
           \A j \in 1..Len(train_pairs), k \in 1..Len(val_pairs) :
               train_pairs[j] # val_pairs[k]

C5_Witness ==
    /\ pc = "attempt_start"
    /\ Len(train_pairs) = NTrain /\ Len(val_pairs) = NVal
    /\ train_pairs[1] # train_pairs[2]

\* C6 as stated (DataSpec): the search starts only after every generated pair of
\* both splits has been through the round-trip check, not a sample of them.
C6_EveryPairChecked ==
    pc = "attempt_start" =>
        /\ SetOf(train_pairs) \cap SetOf(val_pairs) = {}
        /\ ValidateSlice(train_pairs) = train_pairs
        /\ ValidateSlice(val_pairs) = val_pairs

\* C6 amended (DataSpec): the search starts only when the splits share no pair
\* (all pairs compared) and the first ValidateLimit pairs of each split decode
\* to their operands and sum; otherwise preparation aborts, and an aborted run
\* has performed no training step and recorded no attempt.
C6_ChecksBeforeTraining ==
    /\ pc = "attempt_start" =>
           /\ SetOf(train_pairs) \cap SetOf(val_pairs) = {}
           /\ \A k \in 1..Min(Len(train_pairs), ValidateLimit) :
                  RoundTrips(train_pairs[k][1], train_pairs[k][2])
           /\ \A k \in 1..Min(Len(val_pairs), ValidateLimit) :
                  RoundTrips(val_pairs[k][1], val_pairs[k][2])
    /\ pc = "aborted" =>
           /\ SetOf(train_pairs) \cap SetOf(val_pairs) # {}
           /\ i = 0 /\ step = 0 /\ epoch = 0 /\ summaries = <<>>

C6_Witness ==
    /\ pc = "aborted"
    /\ Len(val_pairs) = NVal
    /\ \E j \in 1..Len(train_pairs) : train_pairs[j] = val_pairs[1]

\* C7 (ParamSpec): the number of trainable parameters of the model built for
\* (d_model, d_ff) is 4 d^2 + 2 d f + 25 d + f, which is 236 for (4, 8).
C7_ClosedForm ==
    pc = "epoch" =>
        /\ n_params = ClosedForm(attempts[i].d_model, attempts[i].d_ff)
        /\ (attempts[i].d_model = 4 /\ attempts[i].d_ff = 8) => n_params = 236

C7_Witness ==
    /\ pc = "epoch"
    /\ attempts[i].d_model = 4 /\ attempts[i].d_ff = 8
    /\ n_params = 236

\* The epochs of the current attempt whose validation sequence accuracy was
\* above the threshold
EpochsAbove(h) ==
    {k \in 1..Len(h) : FracLess(THRESHOLD, h[k].val_seq_acc)}

\* C8 as stated (SearchSpec): an attempt that stops before its epoch budget has
\* had a validation sequence accuracy above the threshold for at least
\* MIN_EPOCHS epochs.
C8_AboveForMinEpochs ==
    (pc = "attempt_finish" /\ Len(history) < attempts[i].epochs) =>
        Cardinality(EpochsAbove(history)) >= MIN_EPOCHS

\* C8 amended (SearchSpec): an attempt stops before its epoch budget only at the
\* end of an epoch numbered MIN_EPOCHS or more whose validation sequence
\* accuracy is at least the threshold, it stops at the first such epoch, and
\* otherwise it stops after exactly attempt.epochs epochs.
C8_EarlyStopRule ==
    /\ pc \in {"epoch", "attempt_finish"} =>
           /\ Len(history) = epoch
           /\ epoch <= attempts[i].epochs
           /\ \A k \in 1..Len(history) :
                  (k >= MIN_EPOCHS /\ FracLeq(THRESHOLD, history[k].val_seq_acc)) =>
                      (k = Len(history) /\ pc = "attempt_finish")
    /\ pc = "epoch" => epoch < attempts[i].epochs
    /\ (pc = "attempt_finish" /\ epoch < attempts[i].epochs) =>
           /\ epoch >= MIN_EPOCHS
           /\ FracLeq(THRESHOLD, history[epoch].val_seq_acc)

C8_Witness ==
    /\ pc = "attempt_finish"
    /\ epoch = MIN_EPOCHS /\ epoch < attempts[i].epochs
    /\ Cardinality(EpochsAbove(history)) = 1

C10_SeqLeqTok ==
    pc = "evaluated" =>
        /\ FracLeq(seq_acc, tok_acc)
        /\ tok_acc[2] = Len(val_pairs) * (DigitWidth + 2)
        /\ seq_acc[2] = Len(val_pairs)

C10_Witness ==
    /\ pc = "evaluated"
    /\ seq_acc[1] > 0
    /\ FracLess(seq_acc, tok_acc)

SameAcc(x, y) ==
    /\ FracLeq(x.best_val_seq_acc, y.best_val_seq_acc)
    /\ FracLeq(y.best_val_seq_acc, x.best_val_seq_acc)

\* A selection sel respects the tie-break on the list rs: it is not an eligible
\* attempt y when an eligible x has the same accuracy and strictly fewer parameters,
\* nor when an eligible x with the same parameter count comes before y (unless
\* an entry equal to y stands at x or before it)
RespectsTieBreak(sel, rs) ==
    LET el == Eligible(rs)
    IN  \A x, y \in 1..Len(el) :
            /\ (SameAcc(el[x], el[y]) /\ el[x].params < el[y].params) => sel # el[y]
            /\ (x < y /\ el[x].params = el[y].params /\ sel = el[y]) =>
                   \E z \in 1..x : el[z] = sel

\* C11 (TieSpec): between two eligible attempts of equal accuracy the selection
\* is never the one with more parameters, between two eligible attempts of equal
\* parameter count it is never the later one, and the attempt generate_report
\* selects is the first eligible attempt of minimal parameter count, a function
\* of the ordered list alone.
C11_TieBreak ==
    /\ pc \in {"done", "reported"} => RespectsTieBreak(best.pick, summaries)
    /\ pc = "reported" =>
           /\ RespectsTieBreak(report.pick, summaries)
           /\ Eligible(summaries) # <<>> =>
                  /\ report.status = "ok"
                  /\ \E k \in 1..Len(Eligible(summaries)) :
                         /\ report.pick = Eligible(summaries)[k]
                         /\ \A j \in 1..Len(Eligible(summaries)) :
                                Eligible(summaries)[k].params <= Eligible(summaries)[j].params
                         /\ \A j \in 1..(k - 1) :
                                Eligible(summaries)[k].params < Eligible(summaries)[j].params

C11_Witness ==
    /\ pc = "reported"
    /\ Len(summaries) = 3 /\ Len(Eligible(summaries)) = 3
    /\ SameAcc(summaries[1], summaries[2])
    /\ summaries[2].params < summaries[1].params
    /\ summaries[3].params = summaries[2].params
    /\ summaries[3] # summaries[2]
    /\ report.pick = summaries[2]

\* C12 (FwdSpec): the logit at position p is computed from the tokens at
\* positions 1..p only: two sequences of a batch that agree on positions 1..p
\* have the same logit at position p.
C12_Causal ==
    logits # <<>> =>
        \A p \in 1..Len(inp) :
            /\ InputPositions(logits[p]) \subseteq 1..p
            /\ (\A j \in 1..p : inp[j] = inp2[j]) => logits[p] = logits2[p]

C12_Witness ==
    /\ logits # <<>>
    /\ inp # inp2
    /\ \E p \in 2..(Len(inp) - 1) :
         /\ \A j \in 1..p : inp[j] = inp2[j]
         /\ inp[p + 1] # inp2[p + 1]
         /\ logits[p] = logits2[p]
         /\ logits[p + 1] # logits2[p + 1]

\* The positions (1-based) of the reversed digits of a + b, and of <eos>
ResultRegion == (2 * DigitWidth + 4)..(3 * DigitWidth + 4)
EndMarker == 3 * DigitWidth + 5

\* C13 as stated (CodecSpec): the mask is 1 on the positions of the result
\* digits and 0 on every other position, the end marker included.
C13_ResultRegionOnly ==
    mask # <<>> =>
        \A p \in 1..Len(mask) : mask[p] = 1 <=> p \in ResultRegion

\* C13 amended (CodecSpec): the mask is 1 on every position after the separator,
\* that is on the result digits and on the end marker, and 0 on the start
\* marker, both operands, the operator and the separator.
C13_AfterSeparator ==
    mask # <<>> =>
        /\ Len(mask) = SEQ_LEN /\ Len(toks) = SEQ_LEN
        /\ toks[EndMarker] = "<eos>" /\ toks[2 * DigitWidth + 3] = "="
        /\ \A p \in 1..Len(mask) :
               /\ mask[p] \in {0, 1}
               /\ mask[p] = 1 <=> p \in ResultRegion \cup {EndMarker}

C13_Witness ==
    /\ mask # <<>> /\ ids # <<>>
    /\ a = 1 /\ b = 2
    /\ mask[EndMarker] = 1 /\ toks[EndMarker] = "<eos>"
    /\ mask[1] = 0 /\ mask[2 * DigitWidth + 3] = 0

\* C14 (BuildSpec): build_dataset never holds more than n pairs and returns as
\* soon as it holds n pairs, all distinct; with a source that eventually draws
\* every pair it returns whenever n is at most the number of pairs of the
\* domain, and it never returns when n is larger.
C14_Termination ==
    /\ [](Len(built) <= n_arg /\ NoDuplicates(built) /\ SetOf(built) = seen)
    /\ [](pc = "built" => Len(built) = n_arg)
    /\ [](n_arg > DomainSize => pc # "built")
    /\ (n_arg <= DomainSize) ~> (pc = "built")

C14_Witness ==
    /\ pc = "built"
    /\ n_arg = DomainSize
    /\ Len(built) = DomainSize

\* C15 (FwdSpec): at a masked position p the logit that is scored against the
\* target token Target(inp)[p] is computed from the tokens at positions before p
\* only, never from the position that holds the target itself.
C15_TargetNotAnInput ==
    logits # <<>> =>
        \A p \in MaskedPositions :
            \A j \in InputPositions(logits[p]) :
                j < p /\ (Target(inp)[p] = inp[p] => j # p)

\* C16 (SearchSpec): during the search the train list holds the prepared pairs,
\* each once, in some order, the validation list is the prepared one in its
\* order, and so the splits are disjoint and free of duplicates at the start of
\* every attempt.
C16_FrameOfTrainAttempt ==
    /\ SetOf(train_pairs) = SetOf(PreparedTrain)
    /\ Len(train_pairs) = Len(PreparedTrain)
    /\ val_pairs = PreparedVal
    /\ pc = "attempt_start" =>
           /\ \A j \in 1..Len(train_pairs), k \in 1..Len(val_pairs) :
                  train_pairs[j] # val_pairs[k]
           /\ NoDuplicates(train_pairs)
           /\ NoDuplicates(val_pairs)

C16_Witness ==
    /\ pc = "attempt_start"
    /\ i > 1 /\ i <= Len(attempts)
    /\ train_pairs # PreparedTrain
    /\ SetOf(train_pairs) = SetOf(PreparedTrain)
====
